---- MODULE Spec2Model ----
(***************************************************************************)
(* Visual-test harness of axiom-gui: the five orchestrator scripts under   *)
(* visual-tests/scripts, their test-case methods, result aggregators,      *)
(* report generators and main() control flow.                              *)
(*                                                                         *)
(* One behaviour is one session (one run of one script's main).  The       *)
(* external collaborators (WebDriver, the axiom bindings, scrot, the       *)
(* structures directory) are the environment: every call into them either  *)
(* returns or raises an Exception, chosen with \E in the action of the     *)
(* test case that makes the call.                                          *)
(***************************************************************************)
EXTENDS Naturals, Sequences, FiniteSets

VARIABLES
    script,             \* which script's main() this session runs
    files,              \* names of the files present in structures_dir
    pc,                 \* position of main()
    idx,                \* loop index of main's for loop / run_visual_tests
    driver,             \* self.driver: "None" or "active"
    gui_process,        \* self.gui_process: "None", "running", "terminated", "killed"
    tests,              \* results["tests"]
    screenshots,        \* results["screenshots"] / results["renders"] / SimpleVisualTest.results
    bugs,               \* results["bugs"] / results["errors"]
    structures_loaded,  \* results["structures_loaded"] (axiom_render_test)
    counters,           \* tests_run, tests_passed, tests_failed (visual_validator)
    report,             \* summaries written by completed generate_report calls
    pending,            \* how main leaves its try block: "normal", "return1",
                        \* "raise:startup", "raise:test", "raise:report",
                        \* "raise:interrupt" (an exception is propagating),
                        \* "caught:test", "caught:report", "caught:interrupt"
                        \* (main's own except clause caught it)
    exit_status,        \* process exit status, meaningful when pc = "done"
    invoked,            \* log: the test-case methods invoked, in order, each with
                        \* the exception raised inside its try block ("none")
    calls,              \* log: number of calls of generate_report, of the cleanup
                        \* method, and of the release primitive (quit/terminate),
                        \* and the signals sent to the GUI process, in order
    env,                \* the wall clock in seconds (now), the seconds that pass
                        \* per capture call (step), and the number of capture
                        \* calls that did not leave a usable file so far (faults)
    disk                \* the files written into screenshots_dir, each with
                        \* its path and whether it is "nonempty" or "empty"

vars == <<script, files, pc, idx, driver, gui_process, tests, screenshots, bugs,
          structures_loaded, counters, report, pending, exit_status, invoked, calls,
          env, disk>>

Scripts == {"webdriver", "validator", "direct", "axiom", "simple"}

(***************************************************************************)
(* Fixture files.  A file name is a string; stem and suffix are what       *)
(* pathlib's .stem and .suffix give for it.                                *)
(***************************************************************************)
FixtureNames == <<"glycine.pdb", "methane.xyz", "notes.txt", "water.pdb", "water.xyz">>

FixtureSet == {FixtureNames[i] : i \in 1..Len(FixtureNames)}

\* The most files the structures directory holds in a modelled session.
MaxFiles == 3

Stem(f) ==
    CASE f = "glycine.pdb" -> "glycine"
      [] f = "methane.xyz" -> "methane"
      [] f = "notes.txt"   -> "notes"
      [] f = "water.pdb"   -> "water"
      [] f = "water.xyz"   -> "water"

Suffix(f) ==
    CASE f = "glycine.pdb" -> ".pdb"
      [] f = "methane.xyz" -> ".xyz"
      [] f = "notes.txt"   -> ".txt"
      [] f = "water.pdb"   -> ".pdb"
      [] f = "water.xyz"   -> ".xyz"

\* sorted(S) for a set S of fixture paths: FixtureNames is in path order.
Sorted(S) == SelectSeq(FixtureNames, LAMBDA f : f \in S)

(***************************************************************************)
(* Records of the aggregator.  A test name f"{kind}: {arg}" is the pair of *)
(* its fixed text and its formatted argument ("" when it has none).        *)
(***************************************************************************)
TestName(kind, arg) == [kind |-> kind, arg |-> arg]

\* An outcome entry; error is str(e) of the caught exception, "" when the
\* entry has no "error" key.  str(e) is modelled as the name of the call
\* that raised.
Outcome(name, result, error) == [name |-> name, result |-> result, error |-> error]

Defect(name, issue) == [test |-> name, issue |-> issue]

\* f"{timestamp}_{name}.png", timestamp being strftime("%Y%m%d_%H%M%S") of
\* the clock: the pair of the clock's second and the logical name.
Path(ts, name) == [ts |-> ts, name |-> name]

Shot(name, ts) == [name |-> name, file |-> Path(ts, name)]

\* sum(1 for t in seq if t["result"] == res)
CountResult(seq, res) == Len(SelectSeq(seq, LAMBDA t : t.result = res))

Names(seq) == [i \in 1..Len(seq) |-> seq[i].name]

ZeroCounters == [tests_run |-> 0, tests_passed |-> 0, tests_failed |-> 0]

\* The most seconds that pass per capture call in a modelled session: with
\* 0 every capture of the session falls in the same clock second.
MaxStep == 1

\* The most capture calls of one session that do not leave a usable file.
MaxCaptureFaults == 1

ZeroCalls == [report |-> 0, cleanup |-> 0, release |-> 0, kill |-> 0, click |-> 0,
              signals |-> <<>>]

(***************************************************************************)
(* Construction: __init__ of the script's class, then main up to its       *)
(* first call.  direct_render_test and axiom_render_test acquire no        *)
(* backend and start at their first test case.                             *)
(***************************************************************************)
\* The structure files main of axiom_render_test iterates over:
\* sorted(glob("*.xyz") + glob("*.pdb")).
AX_structures(fs) == Sorted({f \in fs : Suffix(f) \in {".xyz", ".pdb"}})

\* The for loop of main of webdriver_visual_test over two structure names.
WD_structs == <<"water.xyz", "methane.xyz">>

FirstPc(s, fs) ==
    CASE s = "webdriver" -> "setup_driver"
      [] s = "validator" -> "start_driver"
      [] s = "simple"    -> "start_gui"
      [] s = "direct"    -> "run"
      [] s = "axiom"     -> IF AX_structures(fs) = <<>> THEN "generate_report"
                                                         ELSE "for_struct"

Init ==
    /\ script \in Scripts
    /\ files \in {S \in SUBSET FixtureSet : Cardinality(S) <= MaxFiles}
    \* Only axiom_render_test globs the directory; webdriver_visual_test
    \* asks for its two names, the other scripts' sessions do not depend on it.
    /\ (script \in {"validator", "direct", "simple"} => files = {})
    /\ (script = "webdriver" => files \subseteq {WD_structs[i] : i \in 1..Len(WD_structs)})
    /\ pc = FirstPc(script, files)
    /\ idx = 1
    /\ driver = "None"
    /\ gui_process = "None"
    /\ tests = <<>>
    /\ screenshots = <<>>
    /\ bugs = <<>>
    /\ structures_loaded = <<>>
    /\ counters = ZeroCounters
    /\ report = <<>>
    /\ pending = "normal"
    /\ exit_status = 0
    /\ invoked = <<>>
    /\ calls = ZeroCalls
    /\ env \in [now : {0}, step : 0..MaxStep, faults : {0}]
    /\ disk = {}


(***************************************************************************)
(* The aggregator as one value, so that a test-case method is an operator  *)
(* from the aggregator before the call to the aggregator after it.         *)
(***************************************************************************)
\* raised: the exception raised inside the try block of the method being
\* run; exc: that exception when no except clause of the method caught it;
\* notfound: an element lookup of the method matched nothing; capfail: a
\* capture call of the method failed.  env and disk are what the method's
\* capture calls read and write.  input: the environment's input to the
\* method when it is logged (0 when it is not).
Agg == [tests |-> tests, screenshots |-> screenshots, bugs |-> bugs,
        raised |-> "none", exc |-> "none", notfound |-> FALSE, capfail |-> FALSE,
        env |-> env, disk |-> disk, input |-> 0]

SetAgg(r) ==
    /\ tests' = r.tests
    /\ screenshots' = r.screenshots
    /\ bugs' = r.bugs
    /\ env' = r.env
    /\ disk' = r.disk

\* The inputs of a session stay within the bound on capture faults.
WithinBudget(r) == r.env.faults <= MaxCaptureFaults

AddTest(agg, o) == [agg EXCEPT !.tests = Append(@, o)]

\* Mutant of AddBug: the list is replaced by the new entry.
AddBug_replace(agg, d) == [agg EXCEPT !.bugs = <<d>>]

AddBug(agg, d) == [agg EXCEPT !.bugs = Append(@, d)]

\* The capture call for name returned: the clock was read for the path,
\* the file at that path is left as size says ("nonempty", "empty" for a
\* zero-byte file, "missing" for none), and time passes.
Written(agg, name, size) ==
    [agg EXCEPT !.disk = IF size = "missing" THEN @
                         ELSE @ \cup {[path |-> Path(agg.env.now, name), size |-> size]},
                !.env.now = @ + agg.env.step,
                !.env.faults = IF size = "nonempty" THEN @ ELSE @ + 1]

\* The capture call returned and the record is appended, whatever the file.
AddShotSized(agg, name, size) ==
    [Written(agg, name, size) EXCEPT !.screenshots = Append(@, Shot(name, agg.env.now))]

AddShot(agg, name) == AddShotSized(agg, name, "nonempty")

\* The capture call raised: nothing is appended, time passes.
FailShot(agg) ==
    [agg EXCEPT !.capfail = TRUE, !.env.now = @ + agg.env.step, !.env.faults = @ + 1]

\* An element lookup of the method matched nothing.
NotFound(agg) == [agg EXCEPT !.notfound = TRUE]

Invoke(name, r) ==
    invoked' = Append(invoked, [name |-> name, raised |-> r.raised,
                                notfound |-> r.notfound, capfail |-> r.capfail,
                                input |-> r.input])

InvokedNames == [i \in 1..Len(invoked) |-> invoked[i].name]

(***************************************************************************)
(* Exceptions.  str(e) is modelled as the name of the call that raised;    *)
(* ExcClass gives the class of what that call raises.  Every test-case     *)
(* method wraps its body in "try: ... except Exception as e:", which       *)
(* catches the subclasses of Exception and lets KeyboardInterrupt and      *)
(* SystemExit through.                                                     *)
(***************************************************************************)
ExcClass(e) ==
    CASE e \in {"driver.get", "find_elements", "page_source", "find_inputs",
                "find_buttons", "btn.click", "find_inputs_retry", "send_keys",
                "find_element", "perform", "save_screenshot"}
                                          -> "WebDriverException"
      [] e = "NoSuchElementException"     -> "NoSuchElementException"
      [] e \in {"axiom.Renderer", "save_image"} -> "RuntimeError"
      [] e = "Molecule.from_file"         -> "ValueError"
      [] e = "mol.atoms"                  -> "AttributeError"
      [] e = "scrot"                      -> "CalledProcessError"
      [] e = "scrot.timeout"              -> "TimeoutExpired"
      [] e = "open"                       -> "OSError"
      [] e = "SIGINT"                     -> "KeyboardInterrupt"
      [] OTHER                            -> "Exception"

IsException(cls) == cls \notin {"KeyboardInterrupt", "SystemExit", "GeneratorExit"}

\* Mutant of Catches: the clause names the WebDriver exceptions only.
Catches_narrow(e) == ExcClass(e) \in {"WebDriverException", "NoSuchElementException"}

\* "except Exception as e" catches e.
Catches(e) == IsException(ExcClass(e))

\* try: ... except Exception as e: <handled>, when the body raised e with
\* the aggregator as agg.
Except(agg, e, handled) ==
    IF Catches(e) THEN [handled EXCEPT !.raised = e]
                  ELSE [agg EXCEPT !.raised = e, !.exc = e]

(***************************************************************************)
(* webdriver_visual_test.py                                                *)
(***************************************************************************)

\* take_screenshot: save_screenshot raising is caught inside the method,
\* which then returns None and records nothing.
WD_take_screenshot(agg, name, ok) == IF ok THEN AddShot(agg, name) ELSE FailShot(agg)

\* Mutant of WD_except: the except clause records no outcome.
WD_except_silent(agg, name, e) == Except(agg, e, agg)

\* The except clause shared by test_load_structure, test_rotation and
\* test_controls_visible.
WD_except(agg, name, e) == Except(agg, e, AddTest(agg, Outcome(name, "ERROR", e)))

\* The except clause of test_gui_loads, which also appends to "bugs".
WD_except_gui_loads(agg, name, e) ==
    Except(agg, e, AddBug(AddTest(agg, Outcome(name, "ERROR", e)), Defect(name, e)))

WD_GuiLoadsIn ==
    [raise : {"none", "driver.get", "find_elements"}, shot : BOOLEAN, canvas : BOOLEAN]

WD_test_gui_loads_body(agg, in) ==
    LET name == TestName("GUI Loading", "")
        a1   == WD_take_screenshot(agg, "00_gui_loaded", in.shot)
    IN  IF in.raise = "driver.get"
          THEN WD_except_gui_loads(agg, name, in.raise)
        ELSE IF in.raise = "find_elements"
          THEN WD_except_gui_loads(a1, name, in.raise)
        ELSE IF in.canvas
          THEN AddTest(a1, Outcome(name, "PASS", ""))
        ELSE AddTest(AddBug(NotFound(a1), Defect(name, "No canvas element found in DOM")),
                     Outcome(name, "FAIL", ""))

WD_ControlsIn ==
    [raise : {"none", "find_elements", "page_source"}, shot : BOOLEAN]

WD_test_controls_visible_body(agg, in) ==
    LET name == TestName("UI Controls Visibility", "")
        a1   == WD_take_screenshot(agg, "ui_controls", in.shot)
    IN  IF in.raise # "none"
          THEN WD_except(a1, name, in.raise)
          ELSE AddTest(a1, Outcome(name, "PASS", ""))

\* The most buttons the page shows in a modelled session.
MaxButtons == 2

\* buttons[i] is TRUE when the text of the i-th button contains load, open
\* or file.
WD_LoadIn ==
    [raise : {"none", "find_inputs", "find_buttons", "btn.click",
              "find_inputs_retry", "send_keys"},
     found : BOOLEAN, buttons : UNION {[1..n -> BOOLEAN] : n \in 0..MaxButtons},
     retry : BOOLEAN, shot : BOOLEAN]

\* The number of btn.click() calls the for loop over buttons makes: the
\* loop breaks after the first button whose text matches.
WD_clicks(in) ==
    IF ~in.found /\ in.raise \notin {"find_inputs", "find_buttons"}
                 /\ \E i \in 1..Len(in.buttons) : in.buttons[i]
      THEN 1 ELSE 0

\* Whether the call named in.raise is made at all on this path.
WD_load_reached(in) ==
    CASE in.raise = "none"              -> FALSE
      [] in.raise = "find_inputs"       -> TRUE
      [] in.raise = "find_buttons"      -> ~in.found
      [] in.raise = "btn.click"         -> ~in.found /\ \E i \in 1..Len(in.buttons) : in.buttons[i]
      [] in.raise = "find_inputs_retry" -> ~in.found /\ \E i \in 1..Len(in.buttons) : in.buttons[i]
      [] in.raise = "send_keys"         ->
            in.found \/ ((\E i \in 1..Len(in.buttons) : in.buttons[i]) /\ in.retry)

\* "for btn in buttons" from the i-th button on: the index of the button
\* btn.click() is called on, the first whose text matches, 0 when the loop
\* ends without a match.
RECURSIVE WD_first_match(_, _)
WD_first_match(buttons, i) ==
    IF i > Len(buttons) THEN 0
    ELSE IF buttons[i] THEN i
    ELSE WD_first_match(buttons, i + 1)

\* The calls test_load_structure made on the driver and what they gave:
\* the first lookup of the file input, the buttons whose text the loop
\* read, the button it clicked, the second lookup and send_keys.
WD_load_trace(in) ==
    LET btn     == WD_first_match(in.buttons, 1)
        t0      == [first |-> "raised", buttons |-> <<>>, clicked |-> 0,
                    retry |-> "skipped", sent |-> "skipped"]
        send(t) == [t EXCEPT !.sent = IF in.raise = "send_keys" THEN "raised" ELSE "ok"]
        read    == IF btn = 0 THEN in.buttons ELSE SubSeq(in.buttons, 1, btn)
        t1      == [t0 EXCEPT !.first = "empty", !.buttons = read, !.clicked = btn]
    IN  IF in.raise = "find_inputs" THEN t0
        ELSE IF in.found THEN send([t0 EXCEPT !.first = "found"])
        ELSE IF in.raise = "find_buttons" THEN [t0 EXCEPT !.first = "empty"]
        ELSE IF btn = 0 \/ in.raise = "btn.click" THEN t1
        ELSE IF in.raise = "find_inputs_retry" THEN [t1 EXCEPT !.retry = "raised"]
        ELSE IF in.retry THEN send([t1 EXCEPT !.retry = "found"])
        ELSE [t1 EXCEPT !.retry = "empty"]

\* Mutant of WD_structure_shot: the name leaves the stem out.
WD_structure_shot_plain(f) == "structure"

\* f"structure_{structure_file.stem}"
WD_structure_shot(f) ==
    CASE Stem(f) = "water"   -> "structure_water"
      [] Stem(f) = "methane" -> "structure_methane"
      [] Stem(f) = "glycine" -> "structure_glycine"
      [] Stem(f) = "notes"   -> "structure_notes"

\* Mutant of WD_test_load_structure_body: the second lookup is ignored.
WD_test_load_structure_no_retry(agg, structure_file, in) ==
    LET name == TestName("Load Structure", structure_file)
    IN  IF WD_load_reached(in)
          THEN WD_except(agg, name, in.raise)
        ELSE IF in.found
          THEN AddTest(WD_take_screenshot(agg, WD_structure_shot(structure_file), in.shot),
                       Outcome(name, "PASS", ""))
        ELSE AddTest(AddBug(NotFound(agg), Defect(name, "No file input element found")),
                     Outcome(name, "FAIL", ""))

WD_test_load_structure_body(agg, structure_file, in) ==
    LET name        == TestName("Load Structure", structure_file)
        clicked     == \E i \in 1..Len(in.buttons) : in.buttons[i]
        file_inputs == in.found \/ (clicked /\ in.retry)
    IN  IF WD_load_reached(in)
          THEN WD_except(agg, name, in.raise)
        ELSE IF file_inputs
          THEN AddTest(WD_take_screenshot(agg, WD_structure_shot(structure_file), in.shot),
                       Outcome(name, "PASS", ""))
        ELSE AddTest(AddBug(NotFound(agg), Defect(name, "No file input element found")),
                     Outcome(name, "FAIL", ""))

WD_RotationIn ==
    [raise : {"none", "find_element", "perform"}, canvas : BOOLEAN,
     shot1 : BOOLEAN, shot2 : BOOLEAN]

\* driver.find_element raises NoSuchElementException when no canvas exists.
WD_test_rotation_body(agg, in) ==
    LET name == TestName("Rotation", "")
        a1   == WD_take_screenshot(agg, "rotation_before", in.shot1)
        a2   == WD_take_screenshot(a1, "rotation_after", in.shot2)
    IN  IF in.raise = "find_element"
          THEN WD_except(agg, name, in.raise)
        ELSE IF ~in.canvas
          THEN WD_except(NotFound(agg), name, "NoSuchElementException")
        ELSE IF in.raise = "perform"
          THEN WD_except(a1, name, in.raise)
        ELSE AddTest(a2, Outcome(name, "VISUAL", ""))

\* Mutant of WD_summary: what did not fail is counted as passed.
WD_summary_rest(agg) ==
    [total       |-> Len(agg.tests),
     passed      |-> Len(agg.tests) - CountResult(agg.tests, "FAIL"),
     failed      |-> CountResult(agg.tests, "FAIL"),
     errors      |-> CountResult(agg.tests, "ERROR"),
     visual      |-> CountResult(agg.tests, "VISUAL"),
     screenshots |-> Len(agg.screenshots)]

WD_summary(agg) ==
    [total       |-> Len(agg.tests),
     passed      |-> CountResult(agg.tests, "PASS"),
     failed      |-> CountResult(agg.tests, "FAIL"),
     errors      |-> CountResult(agg.tests, "ERROR"),
     visual      |-> CountResult(agg.tests, "VISUAL"),
     screenshots |-> Len(agg.screenshots)]

\* Mutant of WD_main_return: main returns 0 on every path.
WD_main_return_zero(p) == 0

\* What main returns after its finally block.
WD_main_return(p) == IF p = "return1" THEN 1 ELSE 0

\* Mutant of WD_after_setup: main does not return when setup_driver fails.
WD_after_setup_continue(ok) == "test_gui_loads"

\* Where main goes after setup_driver: "return 1" inside the try block
\* runs the finally block.
WD_after_setup(ok) == IF ok THEN "test_gui_loads" ELSE "finally"

\* Mutant of WD_after_test: main stops running tests after one that raised.
WD_after_test_abort(r, next) ==
    /\ pc' = IF r.raised = "none" THEN next ELSE "generate_report"
    /\ pending' = pending

\* Where main goes after a test-case method: on to next, or, when the
\* method let an exception through, to main's except clauses and finally.
WD_after_test(r, next) ==
    IF r.exc = "none"
      THEN pc' = next /\ pending' = pending
      ELSE pc' = "finally" /\ pending' = "caught:test"

WD_setup_driver ==
    /\ script = "webdriver" /\ pc = "setup_driver"
    /\ \E ok \in BOOLEAN :
          /\ driver' = IF ok THEN "active" ELSE driver
          /\ pending' = IF ok THEN pending ELSE "return1"
          /\ pc' = WD_after_setup(ok)
    /\ UNCHANGED <<script, files, idx, gui_process, tests, screenshots, bugs,
                   structures_loaded, counters, report, exit_status, invoked, calls,
                   env, disk>>

WD_test_gui_loads ==
    /\ script = "webdriver" /\ pc = "test_gui_loads"
    /\ \E in \in WD_GuiLoadsIn :
          LET r == WD_test_gui_loads_body(Agg, in)
          IN  /\ WithinBudget(r)
              /\ SetAgg(r)
              /\ Invoke(TestName("GUI Loading", ""), r)
              /\ WD_after_test(r, "test_controls_visible")
    /\ UNCHANGED <<script, files, idx, driver, gui_process, structures_loaded,
                   counters, report, exit_status, calls>>

WD_test_controls_visible ==
    /\ script = "webdriver" /\ pc = "test_controls_visible"
    /\ \E in \in WD_ControlsIn :
          LET r == WD_test_controls_visible_body(Agg, in)
          IN  /\ WithinBudget(r)
              /\ SetAgg(r)
              /\ Invoke(TestName("UI Controls Visibility", ""), r)
              /\ WD_after_test(r, "for_struct")
    /\ idx' = 1
    /\ UNCHANGED <<script, files, driver, gui_process, structures_loaded,
                   counters, report, exit_status, calls>>

\* One iteration of "for struct in [...]": the test runs if the file exists.
WD_for_struct ==
    /\ script = "webdriver" /\ pc = "for_struct"
    /\ LET next == IF idx < Len(WD_structs) THEN "for_struct" ELSE "test_rotation"
       IN  IF WD_structs[idx] \in files
             THEN \E in \in WD_LoadIn :
                    LET r == WD_test_load_structure_body(Agg, WD_structs[idx], in)
                    IN  /\ WithinBudget(r)
                        /\ SetAgg(r)
                        /\ calls' = [calls EXCEPT !.click = @ + WD_clicks(in)]
                        /\ Invoke(TestName("Load Structure", WD_structs[idx]), r)
                        /\ WD_after_test(r, next)
             ELSE /\ pc' = next
                  /\ UNCHANGED <<tests, screenshots, bugs, invoked, calls, pending,
                                 env, disk>>
    /\ idx' = IF idx < Len(WD_structs) THEN idx + 1 ELSE idx
    /\ UNCHANGED <<script, files, driver, gui_process, structures_loaded,
                   counters, report, exit_status>>

\* WD_for_struct with the calls of the test kept in the invocation log.
WD_for_struct_traced ==
    /\ script = "webdriver" /\ pc = "for_struct"
    /\ LET next == IF idx < Len(WD_structs) THEN "for_struct" ELSE "test_rotation"
       IN  IF WD_structs[idx] \in files
             THEN \E in \in WD_LoadIn :
                    LET r == [WD_test_load_structure_body(Agg, WD_structs[idx], in)
                                  EXCEPT !.input = WD_load_trace(in)]
                    IN  /\ WithinBudget(r)
                        /\ SetAgg(r)
                        /\ calls' = [calls EXCEPT !.click = @ + WD_clicks(in)]
                        /\ Invoke(TestName("Load Structure", WD_structs[idx]), r)
                        /\ WD_after_test(r, next)
             ELSE /\ pc' = next
                  /\ UNCHANGED <<tests, screenshots, bugs, invoked, calls, pending,
                                 env, disk>>
    /\ idx' = IF idx < Len(WD_structs) THEN idx + 1 ELSE idx
    /\ UNCHANGED <<script, files, driver, gui_process, structures_loaded,
                   counters, report, exit_status>>

WD_test_rotation ==
    /\ script = "webdriver" /\ pc = "test_rotation"
    /\ \E in \in WD_RotationIn :
          LET r == WD_test_rotation_body(Agg, in)
          IN  /\ WithinBudget(r)
              /\ SetAgg(r)
              /\ Invoke(TestName("Rotation", ""), r)
              /\ WD_after_test(r, "generate_report")
    /\ UNCHANGED <<script, files, idx, driver, gui_process, structures_loaded,
                   counters, report, exit_status, calls>>

WD_generate_report ==
    /\ script = "webdriver" /\ pc = "generate_report"
    /\ report' = Append(report, WD_summary(Agg))
    /\ calls' = [calls EXCEPT !.report = @ + 1]
    /\ pc' = "finally"
    /\ UNCHANGED <<script, files, idx, driver, gui_process, tests, screenshots, bugs,
                   structures_loaded, counters, pending, exit_status, invoked,
                   env, disk>>

\* The finally block (close_driver) and the rest of main after it.
WD_finally ==
    /\ script = "webdriver" /\ pc = "finally"
    /\ calls' = [calls EXCEPT !.cleanup = @ + 1,
                              !.release = IF driver = "active" THEN @ + 1 ELSE @]
    /\ exit_status' = WD_main_return(pending)
    /\ pc' = "done"
    /\ UNCHANGED <<script, files, idx, driver, gui_process, tests, screenshots, bugs,
                   structures_loaded, counters, report, pending, invoked,
                   env, disk>>


(***************************************************************************)
(* Test cases that are a straight line of calls inside one try block       *)
(* (visual_validator, direct_render_test).  A step is a capture, which     *)
(* appends a screenshot record when it returns, or another call.  failAt   *)
(* is the index of the step that raises, 0 when none does: the steps       *)
(* before it have run, those after it have not.                            *)
(***************************************************************************)
Cap(name) == [kind |-> "capture", name |-> name]

Call(name) == [kind |-> "call", name |-> name]

\* The steps that returned.
Ran(steps, failAt) ==
    IF failAt = 0 THEN steps ELSE SubSeq(steps, 1, failAt - 1)

\* str(e) of the exception step st raises; capture names the capture call.
StepError(st, capture) == IF st.kind = "capture" THEN capture ELSE st.name

\* The steps i.. of steps run in order; emptyAt is the index of the capture
\* step that returns leaving a zero-byte file, 0 when none does.
RECURSIVE RunSteps(_, _, _, _)
RunSteps(agg, steps, i, emptyAt) ==
    IF i > Len(steps) THEN agg
    ELSE RunSteps(IF steps[i].kind = "capture"
                    THEN AddShotSized(agg, steps[i].name,
                                      IF i = emptyAt THEN "empty" ELSE "nonempty")
                    ELSE agg,
                  steps, i + 1, emptyAt)

\* The screenshot records the steps that returned have appended, and the
\* capture call that raised when the failing step is a capture.
Captured(agg, steps, failAt, emptyAt) ==
    LET a == RunSteps(agg, Ran(steps, failAt), 1, emptyAt)
    IN  IF failAt # 0 /\ steps[failAt].kind = "capture" THEN FailShot(a) ELSE a

(***************************************************************************)
(* visual_validator.py                                                     *)
(***************************************************************************)
VV_tests == <<
    [name  |-> TestName("XYZ File Loading", ""),
     steps |-> <<Call("driver.get"), Cap("xyz_loading_initial")>>],
    [name  |-> TestName("Rotation", ""),
     steps |-> <<Cap("rotation_before"), Call("find_element"), Call("perform"),
                 Cap("rotation_after")>>],
    [name  |-> TestName("Zoom", ""),
     steps |-> <<Cap("zoom_initial"), Call("find_element"), Call("perform"),
                 Cap("zoom_in"), Call("perform"), Cap("zoom_out")>>],
    [name  |-> TestName("Background Colors", ""),
     steps |-> <<Cap("background_black"), Cap("background_white"),
                 Cap("background_gray")>>],
    [name  |-> TestName("Rendering Controls", ""),
     steps |-> <<Cap("ssaa_off"), Cap("ssaa_on"), Cap("ao_off"), Cap("ao_on")>>] >>

\* A test method's effect on "screenshots" and "bugs".
VV_test_body(agg, t, failAt) ==
    LET a1 == Captured(agg, t.steps, failAt, 0)
        e  == StepError(t.steps[failAt], "save_screenshot")
    IN  IF failAt = 0 THEN a1
        ELSE Except(a1, e, AddBug(a1, Defect(t.name, e)))

\* Mutant of VV_count: the except clause does not count the failure.
VV_count_no_failed(c, r) ==
    IF r.raised = "none" THEN [c EXCEPT !.tests_run = @ + 1, !.tests_passed = @ + 1]
                         ELSE [c EXCEPT !.tests_run = @ + 1]

\* A test method's effect on the counters, r being what VV_test_body gave:
\* tests_run before the try block, tests_passed at its end, tests_failed
\* in the except clause.
VV_count(c, r) ==
    CASE r.raised = "none" -> [c EXCEPT !.tests_run = @ + 1, !.tests_passed = @ + 1]
      [] r.raised # "none" /\ r.exc = "none"
                           -> [c EXCEPT !.tests_run = @ + 1, !.tests_failed = @ + 1]
      [] OTHER             -> [c EXCEPT !.tests_run = @ + 1]

\* The exit status of the process when main is left with p: an exception
\* leaving main ends the interpreter with status 1; visual_validator and
\* simple_visual_test call main() without sys.exit.
ExitOfMain(p) ==
    IF p \in {"raise:startup", "raise:test", "raise:report", "raise:interrupt"}
      THEN 1 ELSE 0

\* Mutant of VV_after_start: main runs the tests whatever start_driver did.
VV_after_start_continue(ok) == "run"

\* Where main goes after start_driver: an exception runs the finally block.
VV_after_start(ok) == IF ok THEN "run" ELSE "finally"

VV_start_driver ==
    /\ script = "validator" /\ pc = "start_driver"
    /\ \E ok \in BOOLEAN :
          /\ driver' = IF ok THEN "active" ELSE driver
          /\ pending' = IF ok THEN pending ELSE "raise:startup"
          /\ pc' = VV_after_start(ok)
    /\ UNCHANGED <<script, files, idx, gui_process, tests, screenshots, bugs,
                   structures_loaded, counters, report, exit_status, invoked, calls,
                   env, disk>>

VV_test ==
    /\ script = "validator" /\ pc = "run"
    /\ \E failAt \in 0..Len(VV_tests[idx].steps) :
          LET r == VV_test_body(Agg, VV_tests[idx], failAt)
          IN  /\ WithinBudget(r)
              /\ SetAgg(r)
              /\ counters' = VV_count(counters, r)
              /\ Invoke(VV_tests[idx].name, r)
              /\ IF r.exc # "none"
                    THEN pc' = "finally" /\ pending' = "raise:test" /\ idx' = idx
                  ELSE IF idx < Len(VV_tests)
                    THEN pc' = pc /\ pending' = pending /\ idx' = idx + 1
                  ELSE pc' = "generate_report" /\ pending' = pending /\ idx' = idx
    /\ UNCHANGED <<script, files, driver, gui_process, structures_loaded, report,
                   exit_status, calls>>

VV_summary(c, agg) ==
    [tests_run    |-> c.tests_run,
     tests_passed |-> c.tests_passed,
     tests_failed |-> c.tests_failed,
     screenshots  |-> Len(agg.screenshots)]

\* Mutant of VV_generate_report: the counters are reset once written.
VV_generate_report_resets ==
    /\ script = "validator" /\ pc = "generate_report"
    /\ report' = Append(report, VV_summary(counters, Agg))
    /\ calls' = [calls EXCEPT !.report = @ + 1]
    /\ counters' = ZeroCounters
    /\ pc' = "finally"
    /\ UNCHANGED <<script, files, idx, driver, gui_process, tests, screenshots, bugs,
                   structures_loaded, pending, exit_status, invoked, env, disk>>

VV_generate_report ==
    /\ script = "validator" /\ pc = "generate_report"
    /\ report' = Append(report, VV_summary(counters, Agg))
    /\ calls' = [calls EXCEPT !.report = @ + 1]
    /\ pc' = "finally"
    /\ UNCHANGED <<script, files, idx, driver, gui_process, tests, screenshots, bugs,
                   structures_loaded, counters, pending, exit_status, invoked,
                   env, disk>>

\* The finally block (stop_driver) and the end of main.
VV_finally ==
    /\ script = "validator" /\ pc = "finally"
    /\ calls' = [calls EXCEPT !.cleanup = @ + 1,
                              !.release = IF driver = "active" THEN @ + 1 ELSE @]
    /\ exit_status' = ExitOfMain(pending)
    /\ pc' = "done"
    /\ UNCHANGED <<script, files, idx, driver, gui_process, tests, screenshots, bugs,
                   structures_loaded, counters, report, pending, invoked,
                   env, disk>>

(***************************************************************************)
(* direct_render_test.py                                                   *)
(***************************************************************************)
DR_tests == <<
    [name  |-> TestName("Render Water Molecule", ""),
     steps |-> <<Call("axiom.Renderer"), Cap("water_default")>>],
    [name  |-> TestName("Test Rotation (Different Camera Angles)", ""),
     steps |-> <<Call("axiom.Renderer"), Cap("rotation_front"), Cap("rotation_side"),
                 Cap("rotation_top"), Cap("rotation_angle")>>],
    [name  |-> TestName("Test Zoom (Different Camera Distances)", ""),
     steps |-> <<Call("axiom.Renderer"), Cap("zoom_far"), Cap("zoom_normal"),
                 Cap("zoom_close"), Cap("zoom_very_close")>>],
    [name  |-> TestName("Test Background Colors", ""),
     steps |-> <<Call("axiom.Renderer"), Cap("bg_black"), Cap("bg_white"),
                 Cap("bg_gray")>>] >>

\* Mutant of DR_except: the clause records FAIL without an "errors" entry.
DR_except_no_entry(agg, name, e) ==
    Except(agg, e, AddTest(agg, Outcome(name, "FAIL", "")))

\* The except clause of the test methods of direct_render_test and
\* axiom_render_test.
DR_except(agg, name, e) ==
    Except(agg, e, AddTest(AddBug(agg, Defect(name, e)), Outcome(name, "FAIL", "")))

\* save_image returning is all a test method looks at: the record is
\* appended whatever file the call left.
\* Mutant of DR_test_body: a failing test takes back its earlier records.
DR_test_body_rollback(agg, t, failAt, emptyAt) ==
    LET a0 == [agg EXCEPT !.input = failAt]
        a1 == Captured(a0, t.steps, failAt, emptyAt)
    IN  IF failAt = 0
          THEN AddTest(a1, Outcome(t.name, "PASS", ""))
          ELSE DR_except([a1 EXCEPT !.screenshots = agg.screenshots],
                         t.name, StepError(t.steps[failAt], "save_image"))

\* failAt, the index of the step that raises, is logged as the input.
DR_test_body(agg, t, failAt, emptyAt) ==
    LET a1 == Captured([agg EXCEPT !.input = failAt], t.steps, failAt, emptyAt)
    IN  IF failAt = 0
          THEN AddTest(a1, Outcome(t.name, "PASS", ""))
          ELSE DR_except(a1, t.name, StepError(t.steps[failAt], "save_image"))

DR_summary(agg) ==
    [total  |-> Len(agg.tests),
     passed |-> CountResult(agg.tests, "PASS"),
     failed |-> CountResult(agg.tests, "FAIL"),
     images |-> Len(agg.screenshots)]

\* return 0 if len(results["errors"]) == 0 else 1
DR_main_return(agg) == IF Len(agg.bugs) = 0 THEN 0 ELSE 1

\* main of direct_render_test and of axiom_render_test has no try block:
\* an exception a test method lets through leaves main, and the process
\* ends with status 1; otherwise main goes on to next.
Uncaught(r, next) ==
    IF r.exc = "none"
      THEN pc' = next /\ pending' = pending /\ exit_status' = exit_status
      ELSE pc' = "done" /\ pending' = "raise:test" /\ exit_status' = 1

DR_test ==
    /\ script = "direct" /\ pc = "run"
    /\ \E failAt \in 0..Len(DR_tests[idx].steps),
          emptyAt \in {0} \cup {i \in 1..Len(DR_tests[idx].steps) :
                                  DR_tests[idx].steps[i].kind = "capture"} :
          LET r == DR_test_body(Agg, DR_tests[idx], failAt, emptyAt)
          IN  /\ emptyAt = 0 \/ failAt = 0 \/ emptyAt < failAt
              /\ WithinBudget(r)
              /\ SetAgg(r)
              /\ Invoke(DR_tests[idx].name, r)
              /\ Uncaught(r, IF idx < Len(DR_tests) THEN "run" ELSE "generate_report")
    /\ idx' = IF idx < Len(DR_tests) THEN idx + 1 ELSE idx
    /\ UNCHANGED <<script, files, driver, gui_process, structures_loaded, counters,
                   report, calls>>

\* generate_report and the rest of main.
DR_generate_report ==
    /\ script = "direct" /\ pc = "generate_report"
    /\ report' = Append(report, DR_summary(Agg))
    /\ calls' = [calls EXCEPT !.report = @ + 1]
    /\ exit_status' = DR_main_return(Agg)
    /\ pc' = "done"
    /\ UNCHANGED <<script, files, idx, driver, gui_process, tests, screenshots, bugs,
                   structures_loaded, counters, pending, invoked,
                   env, disk>>


(***************************************************************************)
(* axiom_render_test.py                                                    *)
(***************************************************************************)

\* test_load_xyz / test_load_pdb, chosen by main on the file's suffix.
AX_load_name(f) ==
    IF Suffix(f) = ".xyz" THEN TestName("Load XYZ", f) ELSE TestName("Load PDB", f)

\* loaded is FALSE when Molecule.from_file raises.
AX_test_load_body(agg, f, loaded) ==
    IF loaded
      THEN AddTest(agg, Outcome(AX_load_name(f), "PASS", ""))
      ELSE DR_except(agg, AX_load_name(f), "Molecule.from_file")

\* test_molecule_properties(mol, struct_file.stem)
AX_properties_name(f) == TestName("Molecule Properties", Stem(f))

AX_test_molecule_properties_body(agg, f, ok) ==
    IF ok
      THEN AddTest(agg, Outcome(AX_properties_name(f), "PASS", ""))
      ELSE DR_except(agg, AX_properties_name(f), "mol.atoms")

\* generate_report raises ZeroDivisionError at passed/total when no test
\* was recorded; the summary is then not written.
AX_report_raises(agg) == Len(agg.tests) = 0

AX_summary(agg) ==
    [total  |-> Len(agg.tests),
     passed |-> CountResult(agg.tests, "PASS"),
     failed |-> CountResult(agg.tests, "FAIL")]

\* The loop of main moves to the next structure file, or leaves the loop.
AX_next_struct(r) ==
    /\ Uncaught(r, IF idx < Len(AX_structures(files)) THEN "for_struct"
                                                       ELSE "generate_report")
    /\ idx' = IF idx < Len(AX_structures(files)) THEN idx + 1 ELSE idx

\* Mutant of AX_test_load: the properties test follows every load test.
AX_test_load_always ==
    /\ script = "axiom" /\ pc = "for_struct"
    /\ LET f == AX_structures(files)[idx]
       IN  \E loaded \in BOOLEAN :
              LET r == AX_test_load_body(Agg, f, loaded)
              IN  /\ SetAgg(r)
                  /\ Invoke(AX_load_name(f), r)
                  /\ structures_loaded' = IF loaded THEN Append(structures_loaded, f)
                                                   ELSE structures_loaded
                  /\ pc' = "properties" /\ idx' = idx
                  /\ UNCHANGED <<pending, exit_status>>
    /\ UNCHANGED <<script, files, driver, gui_process, counters, report, calls>>

\* The first half of a loop iteration: the load test of the file.
AX_test_load ==
    /\ script = "axiom" /\ pc = "for_struct"
    /\ LET f == AX_structures(files)[idx]
       IN  \E loaded \in BOOLEAN :
              LET r == AX_test_load_body(Agg, f, loaded)
              IN  /\ SetAgg(r)
                  /\ Invoke(AX_load_name(f), r)
                  /\ IF loaded
                       THEN /\ structures_loaded' = Append(structures_loaded, f)
                            /\ pc' = "properties" /\ idx' = idx
                            /\ UNCHANGED <<pending, exit_status>>
                       ELSE /\ structures_loaded' = structures_loaded
                            /\ AX_next_struct(r)
    /\ UNCHANGED <<script, files, driver, gui_process, counters, report, calls>>

\* The second half, under "if mol:".
AX_test_molecule_properties ==
    /\ script = "axiom" /\ pc = "properties"
    /\ LET f == AX_structures(files)[idx]
       IN  \E ok \in BOOLEAN :
              LET r == AX_test_molecule_properties_body(Agg, f, ok)
              IN  /\ SetAgg(r)
                  /\ Invoke(AX_properties_name(f), r)
                  /\ AX_next_struct(r)
    /\ UNCHANGED <<script, files, driver, gui_process, structures_loaded, counters,
                   report, calls>>

\* generate_report and the rest of main; an exception leaving main ends
\* the process with status 1.
AX_generate_report ==
    /\ script = "axiom" /\ pc = "generate_report"
    /\ calls' = [calls EXCEPT !.report = @ + 1]
    /\ IF AX_report_raises(Agg)
         THEN /\ report' = report
              /\ pending' = "raise:report"
              /\ exit_status' = ExitOfMain("raise:report")
         ELSE /\ report' = Append(report, AX_summary(Agg))
              /\ pending' = pending
              /\ exit_status' = DR_main_return(Agg)
    /\ pc' = "done"
    /\ UNCHANGED <<script, files, idx, driver, gui_process, tests, screenshots, bugs,
                   structures_loaded, counters, invoked,
                   env, disk>>

(***************************************************************************)
(* simple_visual_test.py                                                   *)
(***************************************************************************)

\* The names run_visual_tests passes to take_screenshot, in order.
SV_captures == <<"01_initial_state", "02_after_5sec", "03_current_state",
                 "04_timed_capture", "05_timed_capture", "06_timed_capture",
                 "07_timed_capture", "08_timed_capture", "09_timed_capture",
                 "10_timed_capture">>

\* What one run of scrot can do: exit 0 having written the file ("ok"),
\* exit 0 having written none ("nofile"), exit non-zero ("nonzero"), or
\* still run after 5 seconds ("timeout").
SV_ScrotOut == {"ok", "nofile", "nonzero", "timeout"}

\* What subprocess.run(check=True, timeout=5) raises for out.
SV_scrot_error(out) ==
    CASE out = "nonzero" -> "scrot"
      [] out = "timeout" -> "scrot.timeout"
      [] OTHER           -> "none"

\* The entry of a call that returned, and of one that raised e.
SV_success(name, ts) == [name |-> name, file |-> Path(ts, name), success |-> TRUE]

SV_failure(name, e) == [name |-> name, error |-> e, success |-> FALSE]

\* Mutant of SV_take_screenshot_body: no try block around subprocess.run.
SV_take_screenshot_unguarded(agg, name, out) ==
    IF SV_scrot_error(out) = "none"
      THEN [Written(agg, name, IF out = "ok" THEN "nonempty" ELSE "missing")
                EXCEPT !.screenshots = Append(@, SV_success(name, agg.env.now))]
      ELSE [FailShot(agg) EXCEPT !.raised = SV_scrot_error(out),
                                 !.exc = SV_scrot_error(out)]

\* Mutant of SV_take_screenshot_body: a failed capture leaves no entry.
SV_take_screenshot_quiet(agg, name, out) ==
    IF SV_scrot_error(out) = "none"
      THEN [Written(agg, name, IF out = "ok" THEN "nonempty" ELSE "missing")
                EXCEPT !.screenshots = Append(@, SV_success(name, agg.env.now))]
      ELSE Except(FailShot(agg), SV_scrot_error(out), FailShot(agg))

\* take_screenshot: one entry per call, success or not.  The call is a
\* success whenever subprocess.run returns, that is whenever scrot exits
\* with status 0 within 5 seconds.
SV_take_screenshot_body(agg, name, out) ==
    IF SV_scrot_error(out) = "none"
      THEN [Written(agg, name, IF out = "ok" THEN "nonempty" ELSE "missing")
                EXCEPT !.screenshots = Append(@, SV_success(name, agg.env.now))]
      ELSE Except(FailShot(agg), SV_scrot_error(out),
                  [FailShot(agg) EXCEPT
                      !.screenshots = Append(@, SV_failure(name, SV_scrot_error(out)))])

\* Where main goes after start_gui: an exception runs the finally block.
SV_after_start(ok) == IF ok THEN "run" ELSE "finally"

SV_summary(results) ==
    [successful |-> Len(SelectSeq(results, LAMBDA r : r.success)),
     total      |-> Len(results)]

\* Popen raising leaves gui_process None and leaves main through finally.
SV_start_gui ==
    /\ script = "simple" /\ pc = "start_gui"
    /\ \E ok \in BOOLEAN :
          /\ gui_process' = IF ok THEN "running" ELSE gui_process
          /\ pending' = IF ok THEN pending ELSE "raise:startup"
          /\ pc' = SV_after_start(ok)
    /\ UNCHANGED <<script, files, idx, driver, tests, screenshots, bugs,
                   structures_loaded, counters, report, exit_status, invoked, calls,
                   env, disk>>

\* One capture of run_visual_tests.
SV_take_screenshot ==
    /\ script = "simple" /\ pc = "run"
    /\ \E out \in SV_ScrotOut :
          LET r == SV_take_screenshot_body(Agg, SV_captures[idx], out)
          IN  /\ WithinBudget(r)
              /\ SetAgg(r)
              /\ IF r.exc # "none"
                    THEN pc' = "finally" /\ pending' = "raise:test" /\ idx' = idx
                  ELSE IF idx < Len(SV_captures)
                    THEN pc' = pc /\ pending' = pending /\ idx' = idx + 1
                  ELSE pc' = "generate_report" /\ pending' = pending /\ idx' = idx
    /\ UNCHANGED <<script, files, driver, gui_process, structures_loaded,
                   counters, report, exit_status, invoked, calls>>

SV_generate_report ==
    /\ script = "simple" /\ pc = "generate_report"
    /\ report' = Append(report, SV_summary(screenshots))
    /\ calls' = [calls EXCEPT !.report = @ + 1]
    /\ pc' = "finally"
    /\ UNCHANGED <<script, files, idx, driver, gui_process, tests, screenshots, bugs,
                   structures_loaded, counters, pending, exit_status, invoked,
                   env, disk>>

\* Mutant of SV_stop_gui: the process is killed without a terminate.
SV_stop_gui_kill(proc, exited) ==
    IF proc = "running" THEN [proc |-> "killed", signals |-> <<"kill">>]
                        ELSE [proc |-> proc, signals |-> <<>>]

\* Mutant of SV_stop_gui: terminate is sent without looking at gui_process.
SV_stop_gui_unguarded(proc, exited) ==
    IF exited THEN [proc |-> "terminated", signals |-> <<"terminate">>]
              ELSE [proc |-> "killed", signals |-> <<"terminate", "kill">>]

\* stop_gui: what becomes of the process and the signals sent to it, in
\* order.  exited is FALSE when wait(timeout=5) raises TimeoutExpired.
SV_stop_gui(proc, exited) ==
    IF proc = "running"
      THEN IF exited THEN [proc |-> "terminated", signals |-> <<"terminate">>]
                     ELSE [proc |-> "killed", signals |-> <<"terminate", "kill">>]
      ELSE [proc |-> proc, signals |-> <<>>]

\* The finally block (stop_gui) and the end of main.
SV_finally ==
    /\ script = "simple" /\ pc = "finally"
    /\ \E exited \in BOOLEAN :
          LET r == SV_stop_gui(gui_process, exited)
          IN  /\ gui_process' = r.proc
              /\ calls' = [calls EXCEPT
                    !.cleanup = @ + 1,
                    !.release = @ + Len(SelectSeq(r.signals, LAMBDA g : g = "terminate")),
                    !.kill    = @ + Len(SelectSeq(r.signals, LAMBDA g : g = "kill")),
                    !.signals = @ \o r.signals]
    /\ exit_status' = ExitOfMain(pending)
    /\ pc' = "done"
    /\ UNCHANGED <<script, files, idx, driver, tests, screenshots, bugs,
                   structures_loaded, counters, report, pending, invoked,
                   env, disk>>

(***************************************************************************)
(* The session                                                             *)
(***************************************************************************)
Next ==
    \/ WD_setup_driver
    \/ WD_test_gui_loads
    \/ WD_test_controls_visible
    \/ WD_for_struct
    \/ WD_test_rotation
    \/ WD_generate_report
    \/ WD_finally
    \/ VV_start_driver
    \/ VV_test
    \/ VV_generate_report
    \/ VV_finally
    \/ DR_test
    \/ DR_generate_report
    \/ AX_test_load
    \/ AX_test_molecule_properties
    \/ AX_generate_report
    \/ SV_start_gui
    \/ SV_take_screenshot
    \/ SV_generate_report
    \/ SV_finally

Spec == Init /\ [][Next]_vars

(***************************************************************************)
(* Sessions with faults outside the test cases.  The three scripts whose   *)
(* main holds a backend wrap their work in "try: ... finally: <cleanup>".  *)
(* Two things leave that try block besides the paths of Spec: a            *)
(* KeyboardInterrupt, which no "except Exception" catches, and an          *)
(* exception of generate_report (open() of the report file failing).       *)
(***************************************************************************)
TryScripts == {"webdriver", "validator", "simple"}

\* main is inside its try block.
InTry == script \in TryScripts /\ pc \notin {"finally", "done"}

\* Mutant of AfterEscape: only webdriver_visual_test has a finally block.
AfterEscape_no_finally(s) == IF s = "webdriver" THEN "finally" ELSE "done"

\* Where main goes when an exception leaves its try block.
AfterEscape(s) == "finally"

\* How main holds exception e that escaped the call at its position:
\* main of webdriver_visual_test has "except KeyboardInterrupt" and
\* "except Exception" clauses, the other two have none.
Escaped(s, e, what) ==
    IF s = "webdriver" /\ (ExcClass(e) = "KeyboardInterrupt" \/ Catches(e))
      THEN what[1] ELSE what[2]

\* A KeyboardInterrupt arrives while main is at pc, before the call at pc
\* has recorded anything.  In the startup call it may arrive after the
\* backend handle was assigned (acquired): start_gui sleeps 15 seconds
\* after Popen, setup_driver and start_driver resize the window after
\* creating the driver.
Interrupt ==
    /\ InTry
    /\ \E acquired \in BOOLEAN :
          /\ acquired => pc \in {"setup_driver", "start_driver", "start_gui"}
          /\ driver' = IF acquired /\ script \in {"webdriver", "validator"}
                         THEN "active" ELSE driver
          /\ gui_process' = IF acquired /\ script = "simple"
                              THEN "running" ELSE gui_process
    /\ pending' = Escaped(script, "SIGINT", <<"caught:interrupt", "raise:interrupt">>)
    /\ pc' = AfterEscape(script)
    /\ UNCHANGED <<script, files, idx, tests, screenshots, bugs, structures_loaded,
                   counters, report, exit_status, invoked, calls, env, disk>>

\* webdriver.Chrome() returned and the handle was assigned, then
\* set_window_size raised: setup_driver catches it and returns False,
\* start_driver lets it through.  The driver is held either way.
ResizeFails ==
    /\ script \in {"webdriver", "validator"} /\ pc \in {"setup_driver", "start_driver"}
    /\ driver' = "active"
    /\ pending' = IF script = "webdriver" THEN "return1" ELSE "raise:startup"
    /\ pc' = IF script = "webdriver" THEN WD_after_setup(FALSE) ELSE VV_after_start(FALSE)
    /\ UNCHANGED <<script, files, idx, gui_process, tests, screenshots, bugs,
                   structures_loaded, counters, report, exit_status, invoked, calls,
                   env, disk>>

\* generate_report raises at open(report_path, 'w'): nothing is written.
ReportFails ==
    /\ script \in TryScripts /\ pc = "generate_report"
    /\ calls' = [calls EXCEPT !.report = @ + 1]
    /\ pending' = Escaped(script, "open", <<"caught:report", "raise:report">>)
    /\ pc' = AfterEscape(script)
    /\ UNCHANGED <<script, files, idx, driver, gui_process, tests, screenshots, bugs,
                   structures_loaded, counters, report, exit_status, invoked, env, disk>>

InitFaults == Init /\ script \in TryScripts

NextFaults ==
    \/ WD_setup_driver
    \/ WD_test_gui_loads
    \/ WD_test_controls_visible
    \/ WD_for_struct
    \/ WD_test_rotation
    \/ WD_generate_report
    \/ WD_finally
    \/ VV_start_driver
    \/ VV_test
    \/ VV_generate_report
    \/ VV_finally
    \/ SV_start_gui
    \/ SV_take_screenshot
    \/ SV_generate_report
    \/ SV_finally
    \/ Interrupt
    \/ ResizeFails
    \/ ReportFails

SpecFaults == InitFaults /\ [][NextFaults]_vars


(***************************************************************************)
(* Vocabulary of the properties                                            *)
(***************************************************************************)

\* The backend was acquired (scripts without a backend are always started).
Started ==
    CASE script \in {"webdriver", "validator"} -> driver = "active"
      [] script = "simple"                     -> gui_process # "None"
      [] OTHER                                 -> TRUE

\* Backend acquisition failed: setup_driver returned False, or start_driver
\* or start_gui raised.
StartupFailed == pending \in {"return1", "raise:startup"}

IsPrefix(a, b) == Len(a) <= Len(b) /\ a = SubSeq(b, 1, Len(a))

\* The test cases main runs, in the order main names them.
WD_plan(fs) ==
    <<TestName("GUI Loading", ""), TestName("UI Controls Visibility", "")>>
    \o [i \in 1..Len(SelectSeq(WD_structs, LAMBDA f : f \in fs)) |->
          TestName("Load Structure", SelectSeq(WD_structs, LAMBDA f : f \in fs)[i])]
    \o <<TestName("Rotation", "")>>

Plan ==
    CASE script = "webdriver" -> WD_plan(files)
      [] script = "validator" -> Names(VV_tests)
      [] script = "direct"    -> Names(DR_tests)
      [] OTHER                -> <<>>

\* The phase of the session main is in: acquiring the backend, running the
\* test cases, generating the report, or past them (cleanup and the end).
Phase ==
    CASE pc \in {"setup_driver", "start_driver", "start_gui"} -> "startup"
      [] pc = "generate_report"                               -> "reporting"
      [] pc \in {"finally", "done"}                           -> "done"
      [] OTHER                                                -> "running"

PhaseRank(ph) ==
    CASE ph = "startup" -> 1 [] ph = "running" -> 2 [] ph = "reporting" -> 3
      [] ph = "done" -> 4

\* Every test case main is to call has been called and has returned.
AllTestsReturned ==
    CASE script \in {"webdriver", "validator", "direct"} -> InvokedNames = Plan
      [] script = "simple" -> Len(screenshots) = Len(SV_captures)
      [] script = "axiom"  ->
            \A i \in 1..Len(AX_structures(files)) :
               LET f == AX_structures(files)[i]
               IN  /\ \E j \in 1..Len(invoked) : invoked[j].name = AX_load_name(f)
                   /\ (\E k \in 1..Len(structures_loaded) : structures_loaded[k] = f)
                        => \E j \in 1..Len(invoked) :
                              invoked[j].name = AX_properties_name(f)

\* The file at path p in screenshots_dir exists and is not empty.
NonEmptyFile(p) == \E d \in disk : d.path = p /\ d.size = "nonempty"

\* The file at path p in screenshots_dir exists.
FileExists(p) == \E d \in disk : d.path = p

\* The indexes of the entries of "screenshots" that name a file (in
\* simple_visual_test the entries of failed captures have no "file" key).
WithFile ==
    {i \in 1..Len(screenshots) : script = "simple" => screenshots[i].success}

\* The names of the render calls of test t, in order.
DR_renders(t) ==
    LET caps == SelectSeq(t.steps, LAMBDA st : st.kind = "capture")
    IN  [i \in 1..Len(caps) |-> caps[i].name]

\* The number of render calls of test t that returned when its step k
\* raised (k = 0: none raised).  Step 1 creates the renderer, step j + 1
\* is the j-th render call.
DR_returned(t, k) ==
    IF k = 0 THEN Len(DR_renders(t)) ELSE IF k = 1 THEN 0 ELSE k - 2

\* The names of the render calls that returned in the first n invocations.
RECURSIVE DR_expected(_)
DR_expected(n) ==
    IF n = 0 THEN <<>>
    ELSE DR_expected(n - 1)
         \o SubSeq(DR_renders(DR_tests[n]), 1, DR_returned(DR_tests[n], invoked[n].input))

\* The invocations of axiom_render_test that are load tests.
AX_loads == {j \in 1..Len(invoked) : invoked[j].name.kind \in {"Load XYZ", "Load PDB"}}

\* The load tests that recorded PASS.
AX_loaded == {j \in AX_loads : j <= Len(tests) /\ tests[j].result = "PASS"}

\* No outcome FAIL or ERROR was recorded (visual_validator keeps counters,
\* not outcomes).
NoFailureRecorded ==
    IF script = "validator"
      THEN counters.tests_failed = 0
      ELSE \A i \in 1..Len(tests) : tests[i].result \notin {"FAIL", "ERROR"}

(***************************************************************************)
(* C1  In webdriver_visual_test, direct_render_test and axiom_render_test  *)
(* every invocation of a test-case method appends exactly one outcome,     *)
(* named after the test, on every path: the names of the outcome list are  *)
(* at all times the names of the invocations so far, so N invocations      *)
(* leave N outcomes.                                                       *)
(***************************************************************************)
C1_OneOutcomePerInvocation ==
    script \in {"webdriver", "direct", "axiom"} => Names(tests) = InvokedNames

\* A finished webdriver session of five invocations that saw a raise, a
\* missing capability and a pass.
C1_Witness ==
    /\ script = "webdriver" /\ pc = "done" /\ Len(invoked) = 5
    /\ \E i, j, k \in 1..Len(tests) :
          /\ tests[i].result = "ERROR"
          /\ tests[j].result = "FAIL"
          /\ tests[k].result = "PASS"

(***************************************************************************)
(* C2  At report time no two recorded outcomes of a session of             *)
(* axiom_render_test or webdriver_visual_test have the same name.          *)
(***************************************************************************)
C2_UniqueNames ==
    (script \in {"axiom", "webdriver"} /\ pc = "generate_report") =>
        \A i, j \in 1..Len(tests) : i # j => tests[i].name # tests[j].name

(***************************************************************************)
(* C3  No test-case method lets an exception through to main, whichever    *)
(* of its steps raises: main is never left or diverted by a test case's    *)
(* exception, and once test cases have run and main is past its run loop,  *)
(* report generation has been reached.                                     *)
(***************************************************************************)
C3_NoTestPropagates ==
    /\ pending \notin {"raise:test", "caught:test"}
    /\ (Len(invoked) > 0 /\ pc \in {"finally", "done"}) => calls.report = 1

\* A finished visual_validator session in which a step of a test raised.
C3_Witness ==
    /\ script = "validator" /\ pc = "done" /\ Len(invoked) = Len(VV_tests)
    /\ \E i \in 1..Len(invoked) : invoked[i].raised = "find_element"

(***************************************************************************)
(* C4  Whenever a step inside a test case raises, the outcome recorded for *)
(* that test case has status ERROR and carries the error message, in       *)
(* every script that records outcomes.                                     *)
(***************************************************************************)
C4_RaiseGivesError ==
    script \in {"webdriver", "direct", "axiom"} =>
        \A i \in 1..Len(invoked) :
            (i <= Len(tests) /\ invoked[i].raised # "none") =>
                /\ tests[i].result = "ERROR"
                /\ tests[i].error = invoked[i].raised

(***************************************************************************)
(* C5  After backend startup main of webdriver_visual_test,                *)
(* visual_validator and direct_render_test invokes its test cases once     *)
(* each in the declared order whatever their outcomes: the invocations so  *)
(* far are a prefix of the plan, are the whole plan once the run loop is   *)
(* over, and the outcome list then has the plan's order.                   *)
(***************************************************************************)
C5_DeclaredOrder ==
    script \in {"webdriver", "validator", "direct"} =>
        /\ IsPrefix(InvokedNames, Plan)
        /\ (pc = "generate_report" \/ (pc \in {"finally", "done"} /\ Started)) =>
              /\ InvokedNames = Plan
              /\ script # "validator" => Names(tests) = Plan

\* A finished direct_render_test session whose first test failed and whose
\* later tests still ran.
C5_Witness ==
    /\ script = "direct" /\ pc = "done" /\ Len(tests) = Len(DR_tests)
    /\ tests[1].result = "FAIL"
    /\ tests[3].result = "FAIL"
    /\ tests[4].result = "PASS"

(***************************************************************************)
(* C6  In every session whose backend startup succeeded generate_report    *)
(* is invoked exactly once, and only after the last test case (capture,    *)
(* in simple_visual_test) has returned.                                    *)
(***************************************************************************)
C6_ReportOnce ==
    /\ calls.report <= 1
    /\ (pc = "done" /\ Started) => calls.report = 1
    /\ calls.report = 1 =>
          /\ script \in {"webdriver", "validator", "direct"} => InvokedNames = Plan
          /\ script = "simple" => Len(screenshots) = Len(SV_captures)

\* A finished simple_visual_test session with failed captures.
C6_Witness ==
    /\ script = "simple" /\ pc = "done" /\ calls.report = 1
    /\ \E i \in 1..Len(screenshots) : ~screenshots[i].success

(***************************************************************************)
(* C7  A session in which no test case ran still completes report          *)
(* generation, with a summary of total 0, passed 0, failed 0.              *)
(***************************************************************************)
C7_EmptySessionReports ==
    (script \in {"webdriver", "direct", "axiom"} /\ pc = "done"
        /\ ~StartupFailed /\ Len(invoked) = 0) =>
            /\ Len(report) = 1
            /\ report[1].total = 0
            /\ report[1].passed = 0
            /\ report[1].failed = 0

(***************************************************************************)
(* C8  When main returns after a started session, its exit signal is 0 if  *)
(* and only if no outcome FAIL or ERROR was recorded (webdriver,           *)
(* validator, direct, axiom).                                              *)
(***************************************************************************)
C8_ExitSignal ==
    (script \in {"webdriver", "validator", "direct", "axiom"} /\ pc = "done"
        /\ Started /\ pending = "normal") =>
            (exit_status = 0 <=> NoFailureRecorded)

(***************************************************************************)
(* C9  If backend acquisition fails, no test case executes in the session  *)
(* and the exit signal is non-zero.                                        *)
(***************************************************************************)
C9_StartupFailure ==
    StartupFailed =>
        /\ invoked = <<>>
        /\ tests = <<>> /\ screenshots = <<>> /\ bugs = <<>>
        /\ counters = ZeroCounters
        /\ pc = "done" => exit_status # 0

\* simple_visual_test ended after start_gui raised.
C9_Witness == script = "simple" /\ pc = "done" /\ StartupFailed

(***************************************************************************)
(* C10  On backend acquisition failure main goes directly to cleanup: the  *)
(* cleanup method runs (once, by the end of main) and generate_report is   *)
(* never invoked.                                                          *)
(***************************************************************************)
C10_StartupFailureCleanup ==
    StartupFailed =>
        /\ pc \in {"finally", "done"}
        /\ calls.report = 0 /\ report = <<>>
        /\ pc = "done" => calls.cleanup = 1

\* webdriver_visual_test ended after setup_driver returned False.
C10_Witness ==
    script = "webdriver" /\ pc = "done" /\ pending = "return1" /\ calls.cleanup = 1

(***************************************************************************)
(* C11.  The release path (close_driver, stop_driver, stop_gui) runs       *)
(* exactly once per session on every way out of main: normal completion,   *)
(* startup failure, an interrupt leaving the run loop, and a failure       *)
(* inside generate_report.  It never runs twice, a finished session has    *)
(* run it once, and a backend that was acquired got its release call       *)
(* (quit, terminate) exactly once.                                         *)
(***************************************************************************)
C11_ReleaseOnce ==
    script \in TryScripts =>
        /\ calls.cleanup <= 1 /\ calls.release <= calls.cleanup
        /\ pc = "done" => /\ calls.cleanup = 1
                          /\ (driver = "active" \/ gui_process # "None")
                                 => calls.release = 1

\* A validator session interrupted between two test cases has quit its driver.
C11_Witness ==
    /\ script = "validator" /\ pc = "done" /\ pending = "raise:interrupt"
    /\ Len(invoked) = 2 /\ calls.cleanup = 1 /\ calls.release = 1

(***************************************************************************)
(* C12.  simple_visual_test: a GUI subprocess that start_gui launched is   *)
(* sent a graceful terminate before main finishes, however main leaves     *)
(* its try block (an interrupt during the start-up delay, during the       *)
(* captures or a failure of generate_report included); a kill is sent      *)
(* only after the terminate, and only when the process had not exited      *)
(* within the 5 seconds of wait.                                           *)
(***************************************************************************)
C12_TerminateThenKill ==
    script = "simple" =>
        /\ calls.signals \in {<<>>, <<"terminate">>, <<"terminate", "kill">>}
        /\ (pc = "done" /\ gui_process # "None") =>
                Len(calls.signals) >= 1 /\ calls.signals[1] = "terminate"
        /\ (\E i \in 1..Len(calls.signals) : calls.signals[i] = "kill")
                <=> gui_process = "killed"
        /\ gui_process = "terminated" => calls.signals = <<"terminate">>

\* Interrupted in the sleep after Popen; the process ignored the terminate.
C12_Witness ==
    /\ script = "simple" /\ pc = "done" /\ pending = "raise:interrupt"
    /\ screenshots = <<>> /\ gui_process = "killed"
    /\ calls.signals = <<"terminate", "kill">>

(***************************************************************************)
(* C13.  The phases of a session only move forward through startup,        *)
(* running, reporting, done.  A step that runs a test case (or, in         *)
(* simple_visual_test, a capture) is taken in the running phase with the   *)
(* backend acquired; a step that calls generate_report is taken in the     *)
(* reporting phase after every test case has returned; and from the        *)
(* terminal phase (cleanup after the report or after a failed startup,     *)
(* and the end) no step runs a test case or generates a report.            *)
(***************************************************************************)
C13_PhaseOrder ==
    [][LET ran      == invoked' # invoked \/ screenshots' # screenshots
           reported == calls'.report # calls.report
       IN  /\ PhaseRank(Phase') >= PhaseRank(Phase)
           /\ ran => Phase = "running" /\ Started
           /\ reported => Phase = "reporting" /\ AllTestsReturned
           /\ Phase = "done" => ~ran /\ ~reported /\ tests' = tests /\ report' = report
      ]_vars

\* A finished visual_validator session: five tests, then one report.
C13_Witness ==
    /\ script = "validator" /\ pc = "done" /\ driver = "active"
    /\ counters.tests_run = Len(VV_tests) /\ Len(report) = 1

(***************************************************************************)
(* C14.  In webdriver_visual_test a test case whose element lookup         *)
(* matches nothing (no canvas, no file input) records FAIL for that test   *)
(* together with a defect report naming it, and not ERROR; the canvas      *)
(* lookup of the rotation test included.                                   *)
(***************************************************************************)
C14_NoMatchIsFail ==
    script = "webdriver" =>
        \A i \in 1..Len(invoked) :
            invoked[i].notfound =>
                /\ i <= Len(tests)
                /\ tests[i].name = invoked[i].name
                /\ tests[i].result = "FAIL"
                /\ \E b \in 1..Len(bugs) : bugs[b].test = invoked[i].name

(***************************************************************************)
(* C15.  The counts generate_report writes are the cardinalities of the    *)
(* aggregator at report time: the total is the number of outcomes, the     *)
(* passed, failed and error counts are the numbers of outcomes with        *)
(* status PASS, FAIL and ERROR, and the screenshot count is the number of  *)
(* screenshot records.  visual_validator keeps counters instead of         *)
(* outcomes: its counts are compared with the invocations themselves.      *)
(* Nothing is recorded after the report, so the comparison is made in      *)
(* every state that has the report.                                        *)
(***************************************************************************)
C15_SummaryCounts ==
    (script \in {"webdriver", "validator", "direct"} /\ Len(report) >= 1) =>
        LET r         == report[1]
            card(st)  == Cardinality({i \in 1..Len(tests) : tests[i].result = st})
            raisedIn  == {i \in 1..Len(invoked) : invoked[i].raised # "none"}
        IN  CASE script = "webdriver" ->
                   /\ r.total = Len(tests)
                   /\ r.passed = card("PASS") /\ r.failed = card("FAIL")
                   /\ r.errors = card("ERROR")
                   /\ r.screenshots = Len(screenshots)
              [] script = "validator" ->
                   /\ r.tests_run = Len(invoked)
                   /\ r.tests_failed = Cardinality(raisedIn)
                   /\ r.tests_passed = Len(invoked) - Cardinality(raisedIn)
                   /\ r.screenshots = Len(screenshots)
              [] script = "direct" ->
                   /\ r.total = Len(tests)
                   /\ r.passed = card("PASS") /\ r.failed = card("FAIL")
                   /\ card("ERROR") = 0
                   /\ r.images = Len(screenshots)

\* A webdriver report over outcomes of three different statuses.
C15_Witness ==
    /\ script = "webdriver" /\ Len(report) = 1
    /\ report[1].passed >= 1 /\ report[1].failed >= 1 /\ report[1].errors >= 1
    /\ report[1].screenshots >= 2

(***************************************************************************)
(* C16.  Every outcome recorded in a session has a status among PASS,      *)
(* FAIL, ERROR and INCONCLUSIVE, on every path of every test case.         *)
(***************************************************************************)
C16_StatusInEnum ==
    \A i \in 1..Len(tests) :
        tests[i].result \in {"PASS", "FAIL", "ERROR", "INCONCLUSIVE"}

(***************************************************************************)
(* C17.  A capture call of the browser-automation scripts that does not    *)
(* append its screenshot record fails with an error the calling test case  *)
(* sees, so that the test case does not pass: in webdriver_visual_test it  *)
(* records no PASS outcome, in visual_validator (which keeps counters) the *)
(* exception reaches the except clause of the test case.                   *)
(***************************************************************************)
C17_CaptureFailureSignalled ==
    script \in {"webdriver", "validator"} =>
        \A i \in 1..Len(invoked) :
            invoked[i].capfail =>
                IF script = "webdriver"
                  THEN i <= Len(tests) /\ tests[i].result # "PASS"
                  ELSE invoked[i].raised # "none"

(***************************************************************************)
(* C18.  simple_visual_test.take_screenshot records a capture as           *)
(* successful only when the output file exists: a non-zero exit of scrot,  *)
(* a run longer than 5 seconds, and an exit with status 0 that left no     *)
(* file are all recorded as failures.                                      *)
(***************************************************************************)
C18_SuccessMeansFile ==
    script = "simple" =>
        \A i \in 1..Len(screenshots) :
            screenshots[i].success => FileExists(screenshots[i].file)

(***************************************************************************)
(* C19.  direct_render_test: every record in results["renders"] refers to  *)
(* an output file that exists and is not empty; a render call that raises  *)
(* or that leaves a zero-byte or missing file appends no record, and its   *)
(* test case does not record PASS.                                         *)
(***************************************************************************)
C19_RendersAreFiles ==
    script = "direct" =>
        /\ \A i \in 1..Len(screenshots) : NonEmptyFile(screenshots[i].file)
        /\ (\E d \in disk : d.size # "nonempty") =>
               \E i \in 1..Len(tests) : tests[i].result # "PASS"

(***************************************************************************)
(* C20.  Within one session no two screenshot records have the same        *)
(* storage path, whatever captures the session makes: also when all of     *)
(* them fall in the same clock second (the timestamp in the path has a     *)
(* resolution of one second), and for the captures named after the         *)
(* fixture files.  No file of the session is written twice either.         *)
(***************************************************************************)
C20_UniquePaths ==
    /\ \A i, j \in WithFile :
           i # j => screenshots[i].file # screenshots[j].file
    /\ \A d1, d2 \in disk : d1.path = d2.path => d1 = d2

\* Both structure captures of a webdriver session taken in one clock second.
C20_Witness ==
    /\ script = "webdriver" /\ env.step = 0
    /\ \E i, j \in 1..Len(screenshots) :
          /\ screenshots[i].name = "structure_water"
          /\ screenshots[j].name = "structure_methane"
          /\ screenshots[i].file.ts = screenshots[j].file.ts

(***************************************************************************)
(* C21.  The aggregator is append-only: every step of a session (a test    *)
(* case, a capture, or anything else) leaves the outcomes, the screenshot  *)
(* records, the defect reports and the loaded-structure entries it found   *)
(* as a prefix of what it leaves behind, so no collection ever shrinks     *)
(* and no earlier entry is rewritten.                                      *)
(***************************************************************************)
C21_AppendOnly ==
    [][/\ IsPrefix(tests, tests')
       /\ IsPrefix(screenshots, screenshots')
       /\ IsPrefix(bugs, bugs')
       /\ IsPrefix(structures_loaded, structures_loaded')]_vars

\* A webdriver session that has appended to all three collections repeatedly.
C21_Witness ==
    /\ script = "webdriver" /\ Len(tests) >= 4 /\ Len(bugs) >= 2
    /\ Len(screenshots) >= 3

(***************************************************************************)
(* C22.  generate_report leaves the session as it found it: in every       *)
(* script, a step that calls generate_report changes none of the           *)
(* outcomes, screenshot records, defect reports, loaded-structure entries  *)
(* and counters.                                                           *)
(***************************************************************************)
C22_ReportReadsOnly ==
    [][calls'.report # calls.report =>
          /\ tests' = tests /\ screenshots' = screenshots /\ bugs' = bugs
          /\ structures_loaded' = structures_loaded /\ counters' = counters]_vars

\* A visual_validator report written over counters, defects and screenshots.
C22_Witness ==
    /\ script = "validator" /\ Len(report) = 1 /\ calls.report = 1
    /\ counters.tests_failed >= 1 /\ counters.tests_passed >= 1
    /\ Len(bugs) >= 1 /\ Len(screenshots) >= 1

(***************************************************************************)
(* C23.  In webdriver_visual_test, direct_render_test and                  *)
(* axiom_render_test every outcome FAIL comes with a defect report (an     *)
(* entry of "bugs" or "errors") that carries the same test name and was    *)
(* appended by the same test-case invocation: the step that appends the    *)
(* outcome appends the entry.                                              *)
(***************************************************************************)
C23_FailHasDefect ==
    [][(script \in {"webdriver", "direct", "axiom"}) =>
          \A i \in (Len(tests) + 1)..Len(tests') :
              tests'[i].result = "FAIL" =>
                  \E b \in (Len(bugs) + 1)..Len(bugs') :
                      bugs'[b].test = tests'[i].name
      ]_vars

\* A direct_render_test session with a FAIL and its "errors" entry, and a
\* later test that passed.
C23_Witness ==
    /\ script = "direct" /\ Len(tests) >= 2
    /\ tests[1].result = "FAIL" /\ tests[2].result = "PASS"
    /\ Len(bugs) = 1 /\ bugs[1].test = tests[1].name

(***************************************************************************)
(* C24.  In webdriver_visual_test a defect report is appended only by a    *)
(* test-case invocation that records FAIL: every entry of "bugs" names a   *)
(* test whose outcome is FAIL, and a test whose outcome is ERROR has no    *)
(* entry.                                                                  *)
(***************************************************************************)
C24_DefectOnlyOnFail ==
    script = "webdriver" =>
        \A b \in 1..Len(bugs) :
            \E i \in 1..Len(tests) :
                tests[i].name = bugs[b].test /\ tests[i].result = "FAIL"

(***************************************************************************)
(* C25.  visual_validator, between test cases: tests_run is tests_passed   *)
(* plus tests_failed, "bugs" has one entry per failed test, and every      *)
(* test method has added one to tests_run and one to exactly one of        *)
(* tests_passed and tests_failed (the one its end, or its except clause,   *)
(* decides).                                                               *)
(***************************************************************************)
C25_CountersAddUp ==
    script = "validator" =>
        LET raisedIn == {i \in 1..Len(invoked) : invoked[i].raised # "none"}
        IN  /\ counters.tests_run = counters.tests_passed + counters.tests_failed
            /\ Len(bugs) = counters.tests_failed
            /\ counters.tests_run = Len(invoked)
            /\ counters.tests_failed = Cardinality(raisedIn)

\* After the fourth test: two tests failed, two passed.
C25_Witness ==
    /\ script = "validator" /\ pc = "run" /\ idx = 5
    /\ counters.tests_failed = 2 /\ counters.tests_passed = 2 /\ Len(bugs) = 2

(***************************************************************************)
(* C26.  direct_render_test and axiom_render_test, between test cases:     *)
(* "errors" has as many entries as there are outcomes FAIL, every outcome  *)
(* is PASS or FAIL, and so the finished process has exit status 0 exactly  *)
(* when every recorded outcome is PASS.                                    *)
(***************************************************************************)
C26_ErrorsCountFails ==
    script \in {"direct", "axiom"} =>
        /\ Len(bugs) = CountResult(tests, "FAIL")
        /\ \A i \in 1..Len(tests) : tests[i].result \in {"PASS", "FAIL"}
        /\ pc = "done" =>
              (exit_status = 0 <=> \A i \in 1..Len(tests) : tests[i].result = "PASS")

(***************************************************************************)
(* C27.  direct_render_test: when the k-th render call of a test case      *)
(* raises, the records of its k-1 earlier renders stay in "renders", no    *)
(* record is added for the k-th or a later render, and the test case's     *)
(* one outcome is FAIL; at all times "renders" holds exactly the render    *)
(* calls that returned, in order.                                          *)
(***************************************************************************)
C27_PartialRendersKept ==
    script = "direct" =>
        /\ Names(screenshots) = DR_expected(Len(invoked))
        /\ Len(tests) = Len(invoked)
        /\ \A i \in 1..Len(invoked) :
               tests[i].result = IF invoked[i].input = 0 THEN "PASS" ELSE "FAIL"

\* The third render of the rotation test raised: front and side are kept.
C27_Witness ==
    /\ script = "direct" /\ Len(invoked) = 2
    /\ invoked[1].input = 0 /\ invoked[2].input = 4
    /\ Names(screenshots) = <<"water_default", "rotation_front", "rotation_side">>
    /\ tests[2].result = "FAIL"

(***************************************************************************)
(* C28.  axiom_render_test: the properties test of a structure runs        *)
(* exactly when the load test of that structure recorded PASS, and right   *)
(* after it.  So when the loop of main is over, with F structure files of  *)
(* which L loaded, there are F + L outcomes and L entries in               *)
(* structures_loaded.                                                      *)
(***************************************************************************)
C28_PropertiesFollowLoad ==
    script = "axiom" =>
        /\ \A j \in (1..Len(invoked)) \ AX_loads :
               /\ j - 1 \in AX_loaded
               /\ invoked[j].name = AX_properties_name(invoked[j - 1].name.arg)
        /\ \A j \in AX_loaded :
               IF j = Len(invoked) THEN pc = "properties"
               ELSE j + 1 \notin AX_loads
        /\ pc \in {"generate_report", "done"} =>
               /\ Cardinality(AX_loads) = Len(AX_structures(files))
               /\ Len(tests) = Len(AX_structures(files)) + Cardinality(AX_loaded)
               /\ Len(structures_loaded) = Cardinality(AX_loaded)

\* Three structure files, two of which loaded.
C28_Witness ==
    /\ script = "axiom" /\ pc = "done" /\ Len(AX_structures(files)) = 3
    /\ Len(tests) = 5 /\ Len(structures_loaded) = 2
    /\ tests[1].result = "FAIL"

(***************************************************************************)
(* C29.  simple_visual_test: run_visual_tests attempts its 10 captures in  *)
(* the fixed order 01..10 and every attempt appends one entry, success or  *)
(* failure; a failed capture does not stop the later ones.  So the         *)
(* entries are always the names of the attempts made so far, and once      *)
(* run_visual_tests has returned there are 10 of them, the successes and   *)
(* the failures adding up to 10.                                           *)
(***************************************************************************)
C29_TenCaptures ==
    script = "simple" =>
        LET good == {i \in 1..Len(screenshots) : screenshots[i].success}
            bad  == {i \in 1..Len(screenshots) : ~screenshots[i].success}
        IN  /\ Names(screenshots) = SubSeq(SV_captures, 1, Len(screenshots))
            /\ pc = "run" => Len(screenshots) = idx - 1
            /\ (pc = "generate_report" \/ (pc \in {"finally", "done"} /\ Started)) =>
                   /\ Len(screenshots) = 10
                   /\ Cardinality(good) + Cardinality(bad) = 10

\* The first capture failed and the tenth was still made.
C29_Witness ==
    /\ script = "simple" /\ pc = "done" /\ Len(screenshots) = 10
    /\ ~screenshots[1].success /\ screenshots[10].success

(***************************************************************************)
(* The sessions of webdriver_visual_test with the calls of every           *)
(* test_load_structure kept in the invocation log.                         *)
(***************************************************************************)
InitLoad == Init /\ script = "webdriver" /\ env.step = 0

NextLoad ==
    \/ WD_setup_driver
    \/ WD_test_gui_loads
    \/ WD_test_controls_visible
    \/ WD_for_struct_traced
    \/ WD_test_rotation
    \/ WD_generate_report
    \/ WD_finally

SpecLoad == InitLoad /\ [][NextLoad]_vars

(***************************************************************************)
(* C30.  webdriver_visual_test.test_load_structure: a button is clicked    *)
(* only when the first file-input lookup found nothing; at most one button *)
(* is clicked, the first whose text contains load, open or file; the       *)
(* lookup is retried only after such a click.  The outcome is PASS exactly *)
(* when a file input was found by the first lookup or by the retry and     *)
(* send_keys did not raise, and FAIL exactly when no file input was found  *)
(* and nothing raised.                                                     *)
(***************************************************************************)
WD_loads == {j \in 1..Len(invoked) : invoked[j].name.kind = "Load Structure"}

C30_LoadStructure ==
    script = "webdriver" =>
        /\ Len(tests) = Len(invoked)
        /\ calls.click = Cardinality({j \in WD_loads : invoked[j].input.clicked # 0})
        /\ \A j \in WD_loads :
               LET t     == invoked[j].input
                   found == t.first = "found" \/ t.retry = "found"
               IN  /\ t.clicked # 0 =>
                          /\ t.first = "empty"
                          /\ t.buttons[t.clicked]
                          /\ \A k \in 1..(t.clicked - 1) : ~t.buttons[k]
                   /\ t.retry # "skipped" => t.clicked # 0
                   /\ tests[j].result = "PASS" <=> (found /\ t.sent = "ok")
                   /\ tests[j].result = "FAIL" <=>
                          (~found /\ invoked[j].raised = "none")

\* The second button is the first that matches, it was clicked, and the
\* retry found the file input.
C30_Witness ==
    /\ script = "webdriver"
    /\ \E j \in WD_loads :
           /\ invoked[j].input.buttons = <<FALSE, TRUE>>
           /\ invoked[j].input.clicked = 2
           /\ invoked[j].input.retry = "found"
           /\ tests[j].result = "PASS"

(***************************************************************************)
(* C31.  The release call on the backend (driver.quit, terminate or kill   *)
(* of the GUI subprocess) is issued only if the backend was acquired, and  *)
(* at most once per session: when the handle is still None (acquisition    *)
(* failed) the cleanup method runs and issues no release call.             *)
(***************************************************************************)
C31_ReleaseOnlyIfAcquired ==
    /\ [](script \in TryScripts =>
            /\ calls.release <= 1 /\ calls.kill <= 1
            /\ (pc = "done" /\ ~Started) =>
                   /\ calls.cleanup = 1
                   /\ calls.release = 0 /\ calls.kill = 0 /\ calls.signals = <<>>)
    /\ [][(script \in TryScripts) =>
               ((calls'.release # calls.release \/ calls'.kill # calls.kill
                    \/ calls'.signals # calls.signals)
                 => Started /\ calls.release = 0 /\ calls'.cleanup = calls.cleanup + 1)
        ]_vars

\* start_driver of visual_validator raised before a driver existed; the
\* finally block ran stop_driver, which called nothing.
C31_Witness ==
    /\ script = "validator" /\ pc = "done" /\ driver = "None"
    /\ pending = "raise:startup" /\ calls.cleanup = 1 /\ calls.release = 0

====
